---- MODULE Spec2Model ----
(***************************************************************************)
(* Model of the Exon serverless handler (src/api/index.js).                *)
(*                                                                         *)
(* The source holds two deployments of one pipeline: the OpenAI handler    *)
(* (lines 1-176) and the Gemini handler (lines 178-378).  `provider` says  *)
(* which one this process runs.  A process owns one module-level token     *)
(* cache (`redditToken`) and serves handler invocations; every invocation  *)
(* has its own request, response and outstanding upstream calls.           *)
(*                                                                         *)
(* JavaScript runs the synchronous part of a handler, and every promise    *)
(* continuation that is already runnable, without interleaving: one action *)
(* of the model is one such run, started by the arrival of a request or by *)
(* the completion of one upstream call.                                    *)
(***************************************************************************)
EXTENDS Integers, Sequences, FiniteSets, TLC

VARIABLES
    provider,     \* "openai" | "gemini": which handler file is deployed
    env,          \* process.env: the set of secrets that are set
    now,          \* Date.now(), in milliseconds
    redditToken,  \* the module-level cache { value, expires }
    pc,           \* per invocation: "idle" | "fanout" | "synth" | "done"
    req,          \* per invocation: the request (method, body)
    res,          \* per invocation: the response object
    search,       \* per invocation: the keyword video search
    chans,        \* per invocation: one getChannelVideos call per channel
    tok,          \* per invocation: the getRedditAccessToken call
    subs,         \* per invocation: one getSubredditPosts call per subreddit
    synth         \* per invocation: masterPrompt and the synthesis call

vars == <<provider, env, now, redditToken, pc, req, res, search, chans, tok,
          subs, synth>>

-----------------------------------------------------------------------------
(* Bounds of the model *)

MaxChannels == 1      \* longest competitorYouTubeChannels list
MaxSubs == 1          \* longest relevantSubreddits list
MaxTicks == 2         \* the clock stops after MaxTicks * TickMs

\* Invocation contexts: Spec serves one invocation at a time, SpecConcurrent
\* lets two overlap on the one token cache.
Reqs == {1, 2}

TickMs == 30 * 60 * 1000

-----------------------------------------------------------------------------
(* JavaScript values *)

Undefined == "<undefined>"

\* JS truthiness of a request field (undefined and "" are falsy)
Truthy(v) == v \notin {Undefined, ""}

\* A string is a sequence of non-empty pieces; the empty string is << >>.
EmptyStr == << >>

RECURSIVE Join(_, _)
\* Array.prototype.join: the strings of `list` with `sep` between them
Join(list, sep) ==
    IF list = << >> THEN EmptyStr
    ELSE IF Len(list) = 1 THEN Head(list)
    ELSE Head(list) \o sep \o Join(Tail(list), sep)

RECURSIVE ReplaceFirst(_, _)
\* String.prototype.replace(piece, ''): drops the first occurrence of piece
ReplaceFirst(s, piece) ==
    IF s = << >> THEN << >>
    ELSE IF Head(s) = piece THEN Tail(s)
    ELSE <<Head(s)>> \o ReplaceFirst(Tail(s), piece)

RECURSIVE SumSeq(_)
SumSeq(s) == IF s = << >> THEN 0 ELSE Head(s) + SumSeq(Tail(s))

-----------------------------------------------------------------------------
(* Requests *)

Methods == {"OPTIONS", "POST", "GET"}

ChannelNames == {<<"Athlean-X">>}

\* An element of relevantSubreddits: a string, or a JSON value that is not
\* a string (a number, null, an object)
StrItem(s) == [isString |-> TRUE, text |-> s]
NonStringItem == [isString |-> FALSE, text |-> << >>]
SubItems == {StrItem(<<"r/", "fitness">>), NonStringItem}

SeqsUpTo(S, n) == UNION {[1..k -> S] : k \in 0..n}

NotAnArray == [isArray |-> FALSE, items |-> << >>]
ArrayOf(items) == [isArray |-> TRUE, items |-> items]

NoBody ==
    [present |-> FALSE, audience |-> Undefined, goal |-> Undefined,
     competitorYouTubeChannels |-> NotAnArray, relevantSubreddits |-> NotAnArray]

Bodies ==
    {NoBody} \cup
    [present : {TRUE},
     audience : {"", "fitness beginners"},
     goal : {Undefined, "grow a YouTube channel"},
     competitorYouTubeChannels :
         {NotAnArray} \cup {ArrayOf(s) : s \in SeqsUpTo(ChannelNames, MaxChannels)},
     relevantSubreddits :
         {NotAnArray} \cup {ArrayOf(s) : s \in SeqsUpTo(SubItems, MaxSubs)}]

NoRequest == [method |-> "", body |-> NoBody]

\* const { ... } = req.body || {}
Destructure(b) == IF b.present THEN b ELSE NoBody

\* The validation without its two Array.isArray tests
BodyInvalid_TextOnly(body) ==
    LET b == Destructure(body) IN ~Truthy(b.audience) \/ ~Truthy(b.goal)

BodyInvalid(body) ==
    LET b == Destructure(body) IN
    \/ ~Truthy(b.audience)
    \/ ~Truthy(b.goal)
    \/ ~b.competitorYouTubeChannels.isArray
    \/ ~b.relevantSubreddits.isArray

-----------------------------------------------------------------------------
(* Configuration *)

Providers == {"openai", "gemini"}

LlmKey(p) == IF p = "openai" THEN "OPENAI_API_KEY" ELSE "GEMINI_API_KEY"

RequiredSecrets(p) ==
    {"YOUTUBE_API_KEY", "REDDIT_CLIENT_ID", "REDDIT_CLIENT_SECRET", LlmKey(p)}

\* The secrets test with && in place of ||
MissingSecret_AllAbsent(e, p) == \A k \in RequiredSecrets(p) : k \notin e

MissingSecret(e, p) == \E k \in RequiredSecrets(p) : k \notin e

-----------------------------------------------------------------------------
(* Responses *)

CorsHeaders ==
    {<<"Access-Control-Allow-Origin", "*">>,
     <<"Access-Control-Allow-Methods", "POST, OPTIONS">>,
     <<"Access-Control-Allow-Headers", "Content-Type">>}

\* A JSON object is the set of its <<key, value>> pairs.
NoResponse == [sends |-> 0, status |-> 0, headers |-> {}, json |-> FALSE, body |-> {}]

\* Headers replaced by every call instead of added one by one
SetHeaders_Replace(r, hs) == [r EXCEPT !.headers = hs]

\* res.setHeader(name, value), once per header of hs
SetHeaders(r, hs) == [r EXCEPT !.headers = @ \cup hs]

\* res.end() without res.status(code): the status stays the default 200
End_DefaultStatus(r, code) == [r EXCEPT !.sends = @ + 1, !.status = 200]

\* res.status(code).end()
End(r, code) == [r EXCEPT !.sends = @ + 1, !.status = code]

\* res.status(code).end(): the object is not sent
Json_NoBody(r, code, obj) == [r EXCEPT !.sends = @ + 1, !.status = code]

\* res.status(code).json(obj)
Json(r, code, obj) ==
    [r EXCEPT !.sends = @ + 1, !.status = code, !.json = TRUE, !.body = obj]

MethodNotAllowed == {<<"error", <<"Method Not Allowed">>>>}
BadRequest ==
    {<<"error", <<"Invalid request body. Ensure all required fields are present.">>>>}
ConfigError == {<<"error", <<"Server configuration error.">>>>}
InternalError(msg) ==
    {<<"error", <<"An internal server error occurred.">>>>, <<"details", msg>>}

\* A catch block answering without the message of the exception
HandlerCatch_NoDetails(r, msg) ==
    Json(r, 500, {<<"error", <<"An internal server error occurred.">>>>})

\* A catch block that logs the error and sends nothing
HandlerCatch_Silent(r, msg) == r

\* The catch block of the handler
HandlerCatch(r, msg) == Json(r, 500, InternalError(msg))

Keys(obj) == {kv[1] : kv \in obj}
Value(obj, k) == (CHOOSE kv \in obj : kv[1] = k)[2]

-----------------------------------------------------------------------------
(* Upstream data *)

\* Titles as the data sources return them
VideoTitle == <<"yt-title">>
ChannelVideoTitle == <<"channel-title">>
PostTitle == <<"post-title">>

\* Pieces of text that only an upstream response can contribute
SourcePieces == {"yt-title", "channel-title", "post-title"}
SynthRawPieces == {"synth-status-text", "synth-raw-content"}

StrategyObject ==
    {<<"trendDiscovery", <<"{trends}">>>>,
     <<"contentAnalysis", <<"{analysis}">>>>,
     <<"competitorReport", <<"{report}">>>>,
     <<"strategyCalendar", <<"[30 day entries]">>>>}
OtherObject == {<<"answer", <<"synth-raw-content">>>>}

\* What the synthesis endpoint may answer
SynthOutcomes ==
    {[kind |-> "ok", value |-> StrategyObject],
     [kind |-> "ok", value |-> OtherObject],
     [kind |-> "httpError", value |-> {}],
     [kind |-> "badJson", value |-> {}]}

-----------------------------------------------------------------------------
(* Token cache *)

NullToken == [by |-> 0, iat |-> 0 - 1]
Token(r, t) == [by |-> r, iat |-> t]

TokenValidityMs == 50 * 60 * 1000

EmptyCache == [value |-> NullToken, expires |-> 0]

\* The expiry test with the comparison reversed
CacheFresh_Reversed(c, t) == c.value # NullToken /\ c.expires < t

\* if (redditToken.value && redditToken.expires > Date.now())
CacheFresh(c, t) == c.value # NullToken /\ c.expires > t

\* A cache that keeps the token for the 60 minutes of the provider
StoreToken_ProviderTtl(token, t) == [value |-> token, expires |-> t + 60 * 60 * 1000]

\* redditToken = { value: response.access_token, expires: Date.now() + 50 * 60 * 1000 }
StoreToken(token, t) == [value |-> token, expires |-> t + TokenValidityMs]

-----------------------------------------------------------------------------
(* Upstream calls of one invocation *)

NoSearch == [st |-> "none", calls |-> 0, failed |-> FALSE, titles |-> << >>]

\* searchYouTubeVideos up to its await: one fetch is in flight
searchYouTubeVideos == [st |-> "pending", calls |-> 1, failed |-> FALSE, titles |-> << >>]

\* searchYouTubeVideos without its try/catch: a failure rejects the promise
SearchResult_NoCatch(s, ok) ==
    IF ok THEN [s EXCEPT !.st = "done", !.titles = <<VideoTitle>>]
    ELSE [s EXCEPT !.st = "rejected", !.failed = TRUE, !.titles = << >>]

\* searchYouTubeVideos after its fetch: the titles, or [] from the catch
SearchResult(s, ok) ==
    IF ok THEN [s EXCEPT !.st = "done", !.titles = <<VideoTitle>>]
    ELSE [s EXCEPT !.st = "done", !.failed = TRUE, !.titles = << >>]

\* getChannelVideos up to its first await: the channel search is in flight
getChannelVideos(channel) ==
    [channel |-> channel, st |-> "resolving", resolveCalls |-> 1, listCalls |-> 0,
     noMatch |-> FALSE, failed |-> FALSE, videos |-> << >>]

\* getChannelVideos without the items guard: reading items[0] of no match
\* throws inside the try block
ChannelResolved_NoGuard(c, outcome) ==
    CASE outcome = "match" -> [c EXCEPT !.st = "listing", !.listCalls = @ + 1]
      [] outcome = "nomatch" -> [c EXCEPT !.st = "done", !.noMatch = TRUE, !.failed = TRUE]
      [] OTHER -> [c EXCEPT !.st = "done", !.failed = TRUE]

\* getChannelVideos after the channel search:
\*   "match": the listing call is issued; "nomatch": items missing or empty,
\*   return []; "error": the catch returns []
ChannelResolved(c, outcome) ==
    CASE outcome = "match" -> [c EXCEPT !.st = "listing", !.listCalls = @ + 1]
      [] outcome = "nomatch" -> [c EXCEPT !.st = "done", !.noMatch = TRUE]
      [] OTHER -> [c EXCEPT !.st = "done", !.failed = TRUE]

\* getChannelVideos after the listing call
ChannelListed(c, ok) ==
    IF ok THEN [c EXCEPT !.st = "done", !.videos = <<ChannelVideoTitle>>]
    ELSE [c EXCEPT !.st = "done", !.failed = TRUE]

NoToken ==
    [st |-> "none", exchanges |-> 0, sentAt |-> 0, fromCache |-> FALSE,
     failed |-> FALSE, value |-> NullToken]

\* getRedditAccessToken up to its await: the cached value, or an exchange in flight
getRedditAccessToken(cache, t) ==
    IF CacheFresh(cache, t)
    THEN [NoToken EXCEPT !.st = "done", !.fromCache = TRUE, !.value = cache.value]
    ELSE [NoToken EXCEPT !.st = "pending", !.exchanges = 1, !.sentAt = t]

\* What the identity endpoint may answer
ExchangeOutcomes == {"token", "noToken", "error"}

\* getRedditAccessToken without its try/catch: a failed exchange rejects
TokenResult_Throws(k, outcome, token) ==
    IF outcome = "token" THEN [k EXCEPT !.st = "done", !.value = token]
    ELSE [k EXCEPT !.st = "rejected", !.failed = TRUE, !.value = NullToken]

\* getRedditAccessToken after the exchange: the new token, or null from the catch
TokenResult(k, outcome, token) ==
    IF outcome = "token" THEN [k EXCEPT !.st = "done", !.value = token]
    ELSE [k EXCEPT !.st = "done", !.failed = TRUE, !.value = NullToken]

\* A cache that a later exchange does not overwrite
CacheAfter_FirstWins(cache, outcome, token, t) ==
    IF outcome = "token" /\ cache.value = NullToken THEN StoreToken(token, t) ELSE cache

\* A cache that a failed exchange empties
CacheAfter_ClearsOnFailure(cache, outcome, token, t) ==
    IF outcome = "token" THEN StoreToken(token, t) ELSE EmptyCache

\* The cache after the exchange: written on success only
CacheAfter(cache, outcome, token, t) ==
    IF outcome = "token" THEN StoreToken(token, t) ELSE cache

NoSub(item) ==
    [subreddit |-> item, st |-> "none", calls |-> 0, name |-> << >>,
     token |-> NullToken, failed |-> FALSE, posts |-> << >>]

\* getSubredditPosts sending its request without the token it was given
getSubredditPosts_Unauthorized(item, token) ==
    [NoSub(item) EXCEPT !.st = "pending", !.calls = 1,
                        !.name = ReplaceFirst(item.text, "r/")]

\* getSubredditPosts(sub.replace('r/',''), token, 3) up to its await
getSubredditPosts(item, token) ==
    [NoSub(item) EXCEPT !.st = "pending", !.calls = 1,
                        !.name = ReplaceFirst(item.text, "r/"), !.token = token]

\* getSubredditPosts fetching a second time after a failure
SubredditResult_Retry(u, ok) ==
    IF ok THEN [u EXCEPT !.st = "done", !.posts = <<PostTitle>>]
    ELSE IF u.calls < 2 THEN [u EXCEPT !.calls = @ + 1]
    ELSE [u EXCEPT !.st = "done", !.failed = TRUE]

\* getSubredditPosts after its fetch
SubredditResult(u, ok) ==
    IF ok THEN [u EXCEPT !.st = "done", !.posts = <<PostTitle>>]
    ELSE [u EXCEPT !.st = "done", !.failed = TRUE]

\* Index of the first element on which sub.replace throws, 0 if there is none
FirstNonString(items) ==
    IF \E j \in 1..Len(items) : ~items[j].isString
    THEN CHOOSE j \in 1..Len(items) :
            /\ ~items[j].isString
            /\ \A i \in 1..(j - 1) : items[i].isString
    ELSE 0

\* The subreddit fan-out without the `token ?` test
SubredditFanOut_Unguarded(items, token) ==
    [j \in 1..Len(items) |->
        IF FirstNonString(items) = 0 \/ j < FirstNonString(items)
        THEN getSubredditPosts(items[j], token)
        ELSE NoSub(items[j])]

\* token ? Promise.all(relevantSubreddits.map(sub => getSubredditPosts(...))) : []
\* The map calls getSubredditPosts element by element and stops where
\* sub.replace throws.
SubredditFanOut(items, token) ==
    LET bad == FirstNonString(items) IN
    [j \in 1..Len(items) |->
        IF token # NullToken /\ (bad = 0 \/ j < bad)
        THEN getSubredditPosts(items[j], token)
        ELSE NoSub(items[j])]

ReplaceTypeError == <<"sub.replace is not a function">>

\* The .then callback after the token rejects the fan-out
FanOutThrows(items, token) == token # NullToken /\ FirstNonString(items) # 0

-----------------------------------------------------------------------------
(* Prompt construction *)

Placeholder(p) == IF p = "openai" THEN <<"No data collected.">> ELSE <<"N/A">>

\* JavaScript a || b on strings
OrElse(a, b) == IF a = EmptyStr THEN b ELSE a

MapSeq(s, F(_)) == [i \in 1..Len(s) |-> F(s[i])]

topVideoTitles(s) == Join(s.titles, <<", ">>)

ChannelLine(c) == c.channel \o <<": ">> \o Join(c.videos, <<", ">>)
competitorVideoTitles(cs) == Join(MapSeq(cs, ChannelLine), <<" | ">>)

\* redditPostsData is [] when the token is null
redditPostsData(k, us) == IF k.value = NullToken THEN << >> ELSE us
SubredditLine(u) == u.subreddit.text \o <<": ">> \o Join(u.posts, <<", ">>)
redditPostTitles(k, us) == Join(MapSeq(redditPostsData(k, us), SubredditLine), <<" | ">>)

masterPrompt(p, body, s, cs, k, us) ==
    [audience |-> body.audience,
     goal |-> body.goal,
     top |-> OrElse(topVideoTitles(s), Placeholder(p)),
     competitors |-> OrElse(competitorVideoTitles(cs), Placeholder(p)),
     reddit |-> OrElse(redditPostTitles(k, us), Placeholder(p))]

NoPrompt ==
    [audience |-> Undefined, goal |-> Undefined, top |-> EmptyStr,
     competitors |-> EmptyStr, reddit |-> EmptyStr]

-----------------------------------------------------------------------------
(* Synthesis call *)

LlmName(p) == IF p = "openai" THEN "OpenAI" ELSE "Gemini"

NormalizedError(p) ==
    IF p = "openai" THEN <<"Failed to get a valid response from the OpenAI API.">>
    ELSE <<"Failed to get a valid response from the Gemini API.">>

\* The error raised inside the try block of callOpenAI_API / callGeminiAPI
InnerError(p, outcome) ==
    IF outcome.kind = "httpError"
    THEN <<LlmName(p), " API Error: ", "synth-status-text">>
    ELSE <<"Unexpected token in JSON: ", "synth-raw-content">>

NoSynth ==
    [st |-> "none", calls |-> 0, prompt |-> NoPrompt, failed |-> FALSE,
     kind |-> "", message |-> EmptyStr, value |-> {}]

\* callOpenAI_API / callGeminiAPI up to its await
StartSynthesis(y, prompt) == [y EXCEPT !.st = "pending", !.calls = @ + 1, !.prompt = prompt]

\* The synthesis call rethrowing the error it caught
SynthesisResult_Rethrows(y, p, outcome) ==
    IF outcome.kind = "ok"
    THEN [y EXCEPT !.st = "done", !.kind = outcome.kind, !.value = outcome.value]
    ELSE [y EXCEPT !.st = "done", !.kind = outcome.kind, !.failed = TRUE,
                   !.message = InnerError(p, outcome)]

\* callOpenAI_API / callGeminiAPI after its fetch: the parsed object, or the
\* normalized error thrown from the catch
SynthesisResult(y, p, outcome) ==
    IF outcome.kind = "ok"
    THEN [y EXCEPT !.st = "done", !.kind = outcome.kind, !.value = outcome.value]
    ELSE [y EXCEPT !.st = "done", !.kind = outcome.kind, !.failed = TRUE,
                   !.message = NormalizedError(p)]

-----------------------------------------------------------------------------
(* The handler *)

Init ==
    /\ provider \in Providers
    /\ env \in SUBSET RequiredSecrets(provider)
    /\ now = 0
    /\ redditToken = EmptyCache
    /\ pc = [r \in Reqs |-> "idle"]
    /\ req = [r \in Reqs |-> NoRequest]
    /\ res = [r \in Reqs |-> NoResponse]
    /\ search = [r \in Reqs |-> NoSearch]
    /\ chans = [r \in Reqs |-> << >>]
    /\ tok = [r \in Reqs |-> NoToken]
    /\ subs = [r \in Reqs |-> << >>]
    /\ synth = [r \in Reqs |-> NoSynth]

\* if (req.method === 'OPTIONS')
IsPreflight(m) == m = "OPTIONS"

\* The method test letting GET through
MethodAllowed_Get(m) == m \in {"POST", "GET"}

\* if (req.method !== 'POST') is false
MethodAllowed(m) == m = "POST"

\* Every promise of Promise.all([...]) has fulfilled
Settled(s, cs, k, us) ==
    /\ s.st = "done"
    /\ \A i \in 1..Len(cs) : cs[i].st = "done"
    /\ k.st = "done"
    /\ \A j \in 1..Len(us) : us[j].st # "pending"

NoError == << >>

\* The reason Promise.all([...]) rejects with, NoError while no promise has
\* rejected.  Every fetcher returns from its own catch, so the only promise
\* that can reject is the .then callback whose sub.replace throws.
Rejection(s, cs, k, us, items) ==
    IF s.st = "rejected" THEN <<"YouTube API Error: ", "yt-status-text">>
    ELSE IF \E i \in 1..Len(cs) : cs[i].st = "rejected" THEN <<"fetch failed">>
    ELSE IF k.st = "rejected" THEN <<"Reddit token not received.">>
    ELSE IF k.st = "done" /\ FanOutThrows(items, k.value) THEN ReplaceTypeError
    ELSE IF \E j \in 1..Len(us) : us[j].st = "rejected" THEN <<"fetch failed">>
    ELSE NoError

\* await Promise.all([...]) of an invocation whose upstream calls are now
\* s, cs, k, us: while `running`, a rejection goes to the catch block, and
\* once every promise has fulfilled the prompt is built and the synthesis
\* call is issued.  After the handler has returned, answers are dropped.
AwaitFanOut(r, running, response, body, s, cs, k, us) ==
    LET err == Rejection(s, cs, k, us,
                         Destructure(body).relevantSubreddits.items)
    IN  /\ search' = [search EXCEPT ![r] = s]
        /\ chans' = [chans EXCEPT ![r] = cs]
        /\ tok' = [tok EXCEPT ![r] = k]
        /\ subs' = [subs EXCEPT ![r] = us]
        /\ IF ~running THEN
              UNCHANGED <<pc, res, synth>>
           ELSE IF err # NoError THEN
              /\ pc' = [pc EXCEPT ![r] = "done"]
              /\ res' = [res EXCEPT ![r] = HandlerCatch(response, err)]
              /\ UNCHANGED synth
           ELSE IF Settled(s, cs, k, us) THEN
              /\ pc' = [pc EXCEPT ![r] = "synth"]
              /\ res' = [res EXCEPT ![r] = response]
              /\ synth' = [synth EXCEPT ![r] =
                     StartSynthesis(@, masterPrompt(provider, Destructure(body), s, cs, k, us))]
           ELSE
              /\ pc' = [pc EXCEPT ![r] = "fanout"]
              /\ res' = [res EXCEPT ![r] = response]
              /\ UNCHANGED synth

\* The handler returns after sending `response` without any upstream call
Reject(r, response) ==
    /\ res' = [res EXCEPT ![r] = response]
    /\ pc' = [pc EXCEPT ![r] = "done"]
    /\ UNCHANGED <<redditToken, search, chans, tok, subs, synth>>

\* module.exports = async (req, res) => { ... } up to its first await
Arrive(r, m, b) ==
    /\ pc[r] = "idle"
    /\ req' = [req EXCEPT ![r] = [method |-> m, body |-> b]]
    /\ UNCHANGED <<provider, env, now>>
    /\ IF IsPreflight(m) THEN
          Reject(r, End(SetHeaders(res[r], CorsHeaders), 204))
       ELSE IF ~MethodAllowed(m) THEN
          Reject(r, Json(SetHeaders(res[r], CorsHeaders), 405, MethodNotAllowed))
       ELSE IF BodyInvalid(b) THEN
          Reject(r, Json(SetHeaders(res[r], CorsHeaders), 400, BadRequest))
       ELSE IF MissingSecret(env, provider) THEN
          Reject(r, Json(SetHeaders(res[r], CorsHeaders), 500, ConfigError))
       ELSE
          LET items == Destructure(b).relevantSubreddits.items
              k == getRedditAccessToken(redditToken, now)
              us == IF k.st = "done" THEN SubredditFanOut(items, k.value)
                    ELSE MapSeq(items, NoSub)
          IN  /\ UNCHANGED redditToken
              /\ AwaitFanOut(r, TRUE, SetHeaders(res[r], CorsHeaders), b,
                     searchYouTubeVideos,
                     MapSeq(Destructure(b).competitorYouTubeChannels.items, getChannelVideos),
                     k, us)

\* The keyword search answers
SearchDone(r, ok) ==
    /\ search[r].st = "pending"
    /\ AwaitFanOut(r, pc[r] = "fanout", res[r], req[r].body,
                   SearchResult(search[r], ok), chans[r], tok[r], subs[r])
    /\ UNCHANGED <<provider, env, now, redditToken, req>>

\* The channel search of channel i answers
ChannelSearchDone(r, i, outcome) ==
    /\ i \in 1..Len(chans[r])
    /\ chans[r][i].st = "resolving"
    /\ AwaitFanOut(r, pc[r] = "fanout", res[r], req[r].body, search[r],
                   [chans[r] EXCEPT ![i] = ChannelResolved(@, outcome)], tok[r], subs[r])
    /\ UNCHANGED <<provider, env, now, redditToken, req>>

\* The video listing of channel i answers
ChannelListDone(r, i, ok) ==
    /\ i \in 1..Len(chans[r])
    /\ chans[r][i].st = "listing"
    /\ AwaitFanOut(r, pc[r] = "fanout", res[r], req[r].body, search[r],
                   [chans[r] EXCEPT ![i] = ChannelListed(@, ok)], tok[r], subs[r])
    /\ UNCHANGED <<provider, env, now, redditToken, req>>

\* The credential exchange answers; the provider issued the token at `iat`.
\* The .then callback runs next and starts the subreddit fetches.
TokenExchangeDone(r, outcome, iat) ==
    /\ tok[r].st = "pending"
    /\ LET token == Token(r, iat)
           k == TokenResult(tok[r], outcome, token)
           us == IF k.st = "done"
                 THEN SubredditFanOut(Destructure(req[r].body).relevantSubreddits.items,
                                      k.value)
                 ELSE subs[r]
       IN  /\ redditToken' = CacheAfter(redditToken, outcome, token, now)
           /\ AwaitFanOut(r, pc[r] = "fanout", res[r], req[r].body, search[r], chans[r], k, us)
    /\ UNCHANGED <<provider, env, now, req>>

\* The hot-post listing of subreddit j answers
SubredditDone(r, j, ok) ==
    /\ j \in 1..Len(subs[r])
    /\ subs[r][j].st = "pending"
    /\ AwaitFanOut(r, pc[r] = "fanout", res[r], req[r].body, search[r], chans[r], tok[r],
                   [subs[r] EXCEPT ![j] = SubredditResult(@, ok)])
    /\ UNCHANGED <<provider, env, now, redditToken, req>>

ContentTypeJson == {<<"Content-Type", "application/json">>}

\* The synthesis endpoint answers: 200 with the parsed object, or the catch
SynthesisDone(r, outcome) ==
    /\ pc[r] = "synth"
    /\ synth[r].st = "pending"
    /\ LET y == SynthesisResult(synth[r], provider, outcome) IN
       /\ synth' = [synth EXCEPT ![r] = y]
       /\ pc' = [pc EXCEPT ![r] = "done"]
       /\ res' = [res EXCEPT ![r] =
              IF y.failed THEN HandlerCatch(@, y.message)
              ELSE Json(SetHeaders(@, ContentTypeJson), 200, y.value)]
    /\ UNCHANGED <<provider, env, now, redditToken, req, search, chans, tok, subs>>

\* The invocation is over: its request-scoped objects are garbage
Recycle(r) ==
    /\ pc[r] = "done"
    /\ pc' = [pc EXCEPT ![r] = "idle"]
    /\ req' = [req EXCEPT ![r] = NoRequest]
    /\ res' = [res EXCEPT ![r] = NoResponse]
    /\ search' = [search EXCEPT ![r] = NoSearch]
    /\ chans' = [chans EXCEPT ![r] = << >>]
    /\ tok' = [tok EXCEPT ![r] = NoToken]
    /\ subs' = [subs EXCEPT ![r] = << >>]
    /\ synth' = [synth EXCEPT ![r] = NoSynth]
    /\ UNCHANGED <<provider, env, now, redditToken>>

\* Time passes
Tick ==
    /\ now + TickMs <= MaxTicks * TickMs
    /\ now' = now + TickMs
    /\ UNCHANGED <<provider, env, redditToken, pc, req, res, search, chans, tok,
                   subs, synth>>

-----------------------------------------------------------------------------
(* The process *)

\* The platform hands a new invocation the first free context
FirstIdle(r) == pc[r] = "idle" /\ \A q \in Reqs : q < r => pc[q] # "idle"

Invoke(m, b) == \E r \in Reqs : FirstIdle(r) /\ Arrive(r, m, b)

NoneInFlight == \A q \in Reqs : pc[q] = "idle"

ExchangeInFlight == \E r \in Reqs : tok[r].st = "pending"

\* Answers of the video search, the identity endpoint, the subreddit listing
\* and the synthesis endpoint
SourceAnswers ==
    \/ \E r \in Reqs, ok \in BOOLEAN : SearchDone(r, ok)
    \/ \E r \in Reqs, outcome \in ExchangeOutcomes :
          \E iat \in {tok[r].sentAt, now} : TokenExchangeDone(r, outcome, iat)
    \/ \E r \in Reqs, j \in 1..(MaxSubs + 1), ok \in BOOLEAN : SubredditDone(r, j, ok)
    \/ \E r \in Reqs, outcome \in SynthOutcomes : SynthesisDone(r, outcome)

\* Answers to getChannelVideos
ChannelAnswers ==
    \/ \E r \in Reqs, i \in 1..(MaxChannels + 1),
          outcome \in {"match", "nomatch", "error"} : ChannelSearchDone(r, i, outcome)
    \/ \E r \in Reqs, i \in 1..(MaxChannels + 1), ok \in BOOLEAN : ChannelListDone(r, i, ok)

\* A warm instance that serves one invocation at a time.  Date.now() is read
\* by getRedditAccessToken only (the expiry test when an invocation starts,
\* the expiry written when the exchange answers): the clock is advanced
\* between those reads.
Next ==
    \/ \E m \in Methods, b \in Bodies : NoneInFlight /\ Invoke(m, b)
    \/ SourceAnswers
    \/ ChannelAnswers
    \/ \E r \in Reqs : Recycle(r)
    \/ (NoneInFlight \/ ExchangeInFlight) /\ Tick

Spec == Init /\ [][Next]_vars

\* The warm instance while the clock stands still: the handler reads the
\* clock for the token cache only, and waits for nothing but its upstream
\* calls
NextLive ==
    \/ \E m \in Methods, b \in Bodies : NoneInFlight /\ Invoke(m, b)
    \/ SourceAnswers
    \/ ChannelAnswers
    \/ \E r \in Reqs : Recycle(r)

\* Every upstream call that is outstanding is eventually answered: fetch
\* settles its promise when the endpoint answers or the connection fails
SpecLive ==
    /\ Init /\ [][NextLive]_vars
    /\ WF_vars(SourceAnswers) /\ WF_vars(ChannelAnswers)

\* Requests of overlapping invocations: well-formed, without channels, the
\* subreddits being strings
ConcurrentBodies ==
    {b \in Bodies :
        /\ ~BodyInvalid(b)
        /\ b.competitorYouTubeChannels.items = << >>
        /\ \A j \in 1..Len(b.relevantSubreddits.items) : b.relevantSubreddits.items[j].isString}

\* The answers that reach overlapping invocations.  The keyword search and
\* the synthesis touch neither the token cache nor the subreddit fetches:
\* one answer of each is kept, and the identity endpoint issues its token
\* as it answers.
ConcurrentAnswers ==
    \/ \E r \in Reqs : SearchDone(r, TRUE)
    \/ \E r \in Reqs, outcome \in ExchangeOutcomes : TokenExchangeDone(r, outcome, now)
    \/ \E r \in Reqs, j \in 1..(MaxSubs + 1), ok \in BOOLEAN : SubredditDone(r, j, ok)
    \/ \E r \in Reqs : SynthesisDone(r, [kind |-> "ok", value |-> StrategyObject])

\* An instance whose invocations overlap: a request may arrive while another
\* is being served, and both use the one token cache
NextConcurrent ==
    \/ \E b \in ConcurrentBodies : Invoke("POST", b)
    \/ ConcurrentAnswers
    \/ \E r \in Reqs : Recycle(r)
    \/ ((\E r \in Reqs : pc[r] = "idle") \/ ExchangeInFlight) /\ Tick

\* A fully configured deployment of the first handler; the token code of
\* the second is the same
InitConcurrent == Init /\ provider = "openai" /\ RequiredSecrets(provider) \subseteq env

SpecConcurrent == InitConcurrent /\ [][NextConcurrent]_vars

-----------------------------------------------------------------------------
(* Vocabulary of the properties *)

Started(r) == pc[r] # "idle"
Finished(r) == pc[r] = "done"

\* Upstream calls issued by invocation r, by kind
SearchCalls(r) == search[r].calls
ChannelCalls(r) ==
    SumSeq([i \in 1..Len(chans[r]) |-> chans[r][i].resolveCalls + chans[r][i].listCalls])
ExchangeCalls(r) == tok[r].exchanges
SubredditCalls(r) == SumSeq([j \in 1..Len(subs[r]) |-> subs[r][j].calls])
SynthesisCalls(r) == synth[r].calls
UpstreamCalls(r) ==
    SearchCalls(r) + ChannelCalls(r) + ExchangeCalls(r) + SubredditCalls(r)
    + SynthesisCalls(r)

\* The body lacks a truthy audience or goal, or one of the lists is no array
MalformedBody(b) ==
    \/ ~b.present
    \/ b.audience \in {Undefined, ""}
    \/ b.goal \in {Undefined, ""}
    \/ ~b.competitorYouTubeChannels.isArray
    \/ ~b.relevantSubreddits.isArray

\* The body has the shape of a StrategyRequest: both texts, two lists of strings
StrategyRequest(b) ==
    /\ ~MalformedBody(b)
    /\ \A j \in 1..Len(b.relevantSubreddits.items) : b.relevantSubreddits.items[j].isString

AllSecretsSet == RequiredSecrets(provider) \subseteq env

\* A valid request: POST, a StrategyRequest body, every secret configured
ValidRequest(r) ==
    /\ req[r].method = "POST"
    /\ StrategyRequest(req[r].body)
    /\ AllSecretsSet

CacheHoldsToken == redditToken.value # NullToken

\* The pieces of text found in the values of a JSON object
PiecesOf(obj) == UNION {{kv[2][i] : i \in 1..Len(kv[2])} : kv \in obj}

-----------------------------------------------------------------------------
(* C1 *)

\* C1: a POST whose body lacks a truthy audience or goal, or whose
\* competitorYouTubeChannels or relevantSubreddits is not an array, is
\* answered 400 with no upstream call of any kind, whatever the secrets and
\* the token cache hold.
C1_MalformedBodyRejected ==
    \A r \in Reqs :
        (Started(r) /\ req[r].method = "POST" /\ MalformedBody(req[r].body)) =>
            /\ Finished(r)
            /\ res[r].sends = 1
            /\ res[r].status = 400
            /\ res[r].body = BadRequest
            /\ UpstreamCalls(r) = 0

\* A malformed POST answered 400 by a fully configured process whose cache
\* holds a token
C1_Witness ==
    \E r \in Reqs :
        /\ req[r].method = "POST" /\ MalformedBody(req[r].body)
        /\ req[r].body.present /\ ~req[r].body.relevantSubreddits.isArray
        /\ res[r].status = 400
        /\ AllSecretsSet /\ CacheHoldsToken

-----------------------------------------------------------------------------
(* C2 *)

ChannelsFetchedOncePerElement(r) ==
    LET items == req[r].body.competitorYouTubeChannels.items IN
    /\ Len(chans[r]) = Len(items)
    /\ \A i \in 1..Len(items) :
          /\ chans[r][i].channel = items[i]
          /\ chans[r][i].resolveCalls = 1
          /\ chans[r][i].listCalls <= 1

SubredditsFetched(r, n) ==
    LET items == req[r].body.relevantSubreddits.items IN
    /\ Len(subs[r]) = Len(items)
    /\ \A j \in 1..Len(items) :
          /\ subs[r][j].subreddit = items[j]
          /\ subs[r][j].calls = n

ExchangeAtMostOnce(r) ==
    /\ ExchangeCalls(r) <= 1
    /\ tok[r].fromCache => ExchangeCalls(r) = 0

\* C2 as stated: a valid request fetches every channel once, every subreddit
\* once, searches once and exchanges at most once.
C2_OnePerElement ==
    \A r \in Reqs :
        (Finished(r) /\ ValidRequest(r)) =>
            /\ ChannelsFetchedOncePerElement(r)
            /\ SubredditsFetched(r, 1)
            /\ SearchCalls(r) = 1
            /\ ExchangeAtMostOnce(r)

\* C2 amended: a valid request fetches every channel once, searches once and
\* exchanges at most once (not at all when the cached token is served); it
\* fetches every subreddit once when getRedditAccessToken returned a token
\* and no subreddit when it returned null.
C2_OnePerElementGivenToken ==
    \A r \in Reqs :
        (Finished(r) /\ ValidRequest(r)) =>
            /\ ChannelsFetchedOncePerElement(r)
            /\ SubredditsFetched(r, IF tok[r].value # NullToken THEN 1 ELSE 0)
            /\ SearchCalls(r) = 1
            /\ ExchangeAtMostOnce(r)

\* A finished valid request with a channel and a subreddit, once with a
\* fresh exchange behind it
C2_Witness ==
    \E r \in Reqs :
        /\ Finished(r) /\ ValidRequest(r)
        /\ Len(chans[r]) > 0 /\ Len(subs[r]) > 0
        /\ ExchangeCalls(r) = 1 /\ tok[r].value # NullToken
        /\ SubredditCalls(r) = Len(subs[r])

-----------------------------------------------------------------------------
(* C3 *)

\* getRedditAccessToken is called in the step that starts invocation r
CallsGetToken(r) == pc[r] = "idle" /\ tok'[r].st # "none"

\* C3: when the cache holds a token whose expiry is later than the current
\* time, getRedditAccessToken returns the cached value, issues no exchange
\* and leaves the cache as it is.
C3_FreshTokenServedFromCache ==
    [][\A r \in Reqs :
          (CallsGetToken(r) /\ CacheHoldsToken /\ redditToken.expires > now) =>
              /\ tok'[r].st = "done"
              /\ tok'[r].value = redditToken.value
              /\ tok'[r].exchanges = 0
              /\ redditToken' = redditToken]_vars

\* A later request of the same process served from the cache
C3_Witness ==
    \E r \in Reqs :
        /\ tok[r].st = "done" /\ tok[r].exchanges = 0
        /\ tok[r].value = redditToken.value /\ CacheHoldsToken
        /\ now > 0 /\ now < redditToken.expires

-----------------------------------------------------------------------------
(* C4 *)

NormalizedMessages ==
    {<<"Failed to get a valid response from the OpenAI API.">>,
     <<"Failed to get a valid response from the Gemini API.">>}

SynthesisFailed(r) == synth[r].st = "done" /\ synth[r].kind \in {"httpError", "badJson"}

\* C4: when the synthesis call fails (non-success status or unparseable
\* content) the response is a single 500 whose body has the keys error and
\* details only, details being the normalized message; no text from the data
\* sources or from the synthesizer's raw answer is in it.
C4_SynthesisFailureIs500 ==
    \A r \in Reqs :
        SynthesisFailed(r) =>
            /\ Finished(r)
            /\ res[r].sends = 1
            /\ res[r].status = 500
            /\ Keys(res[r].body) = {"error", "details"}
            /\ Cardinality(res[r].body) = 2
            /\ Value(res[r].body, "details") \in NormalizedMessages
            /\ PiecesOf(res[r].body) \cap (SourcePieces \cup SynthRawPieces) = {}

\* An unparseable answer after titles were collected from every source
C4_Witness ==
    \E r \in Reqs :
        /\ synth[r].st = "done" /\ synth[r].kind = "badJson"
        /\ search[r].titles # << >>
        /\ \E i \in 1..Len(chans[r]) : chans[r][i].videos # << >>
        /\ \E j \in 1..Len(subs[r]) : subs[r][j].posts # << >>
        /\ res[r].status = 500

-----------------------------------------------------------------------------
(* C5 *)

\* A failed fetcher contributed the empty list
FailuresDegraded(r) ==
    /\ search[r].failed => search[r].st = "done" /\ search[r].titles = << >>
    /\ \A i \in 1..Len(chans[r]) :
          chans[r][i].failed => chans[r][i].st = "done" /\ chans[r][i].videos = << >>
    /\ \A j \in 1..Len(subs[r]) :
          subs[r][j].failed => subs[r][j].st = "done" /\ subs[r][j].posts = << >>

StatusFollowsSynthesis(r) ==
    /\ SynthesisCalls(r) = 1
    /\ synth[r].st = "done"
    /\ res[r].sends = 1
    /\ res[r].status = IF synth[r].kind = "ok" THEN 200 ELSE 500

\* C5: a failing fetcher yields the empty list and nothing else; a valid
\* request reaches the synthesis call under every combination of source
\* failures, and its status is 200 or 500 by the synthesis outcome alone.
C5_FetcherFailuresDegrade ==
    \A r \in Reqs :
        /\ FailuresDegraded(r)
        /\ (Finished(r) /\ ValidRequest(r)) => StatusFollowsSynthesis(r)

\* Search, channel and subreddit all failed and the request ended 200
C5_Witness ==
    \E r \in Reqs :
        /\ Finished(r) /\ ValidRequest(r)
        /\ search[r].failed
        /\ \E i \in 1..Len(chans[r]) : chans[r][i].failed
        /\ \E j \in 1..Len(subs[r]) : subs[r][j].failed
        /\ res[r].status = 200

-----------------------------------------------------------------------------
(* C6 *)

\* C6: a failed exchange makes getRedditAccessToken return null; the handler
\* then fetches no subreddit, uses the empty subreddit result (the Reddit
\* line of the prompt is the placeholder) and goes on to the synthesis call,
\* whose outcome alone decides the status.
C6_NullTokenMeansNoReddit ==
    \A r \in Reqs :
        tok[r].failed =>
            /\ tok[r].st = "done" /\ tok[r].value = NullToken
            /\ SubredditCalls(r) = 0
            /\ redditPostsData(tok[r], subs[r]) = << >>
            /\ synth[r].st # "none" => synth[r].prompt.reddit \in {<<"No data collected.">>, <<"N/A">>}
            /\ Finished(r) => StatusFollowsSynthesis(r)

\* A request with a subreddit whose exchange failed and which ended 200
C6_Witness ==
    \E r \in Reqs :
        /\ tok[r].failed /\ Len(subs[r]) > 0
        /\ Finished(r) /\ res[r].status = 200

-----------------------------------------------------------------------------
(* C7 *)

ConfigRejected(r) ==
    /\ Finished(r)
    /\ res[r].sends = 1
    /\ res[r].status = 500
    /\ res[r].body = ConfigError
    /\ UpstreamCalls(r) = 0

\* C7 as stated: every POST of a process that lacks one of the four secrets
\* is answered 500 with the configuration error, before any upstream call.
C7_MissingSecretIs500 ==
    \A r \in Reqs :
        (Started(r) /\ req[r].method = "POST" /\ ~AllSecretsSet) => ConfigRejected(r)

\* C7 amended: every POST whose body passes the validation, in a process
\* that lacks one of the four secrets, is answered 500 with the
\* configuration error, before any upstream call.
C7_MissingSecretIs500AfterValidation ==
    \A r \in Reqs :
        (Started(r) /\ req[r].method = "POST" /\ ~MalformedBody(req[r].body)
            /\ ~AllSecretsSet) => ConfigRejected(r)

\* A well-formed POST rejected because exactly one secret is missing
C7_Witness ==
    \E r \in Reqs :
        /\ req[r].method = "POST" /\ ~MalformedBody(req[r].body)
        /\ Cardinality(RequiredSecrets(provider) \ env) = 1
        /\ res[r].status = 500

-----------------------------------------------------------------------------
(* C8 *)

PreflightAnswered(r) ==
    /\ Finished(r)
    /\ res[r].sends = 1
    /\ res[r].status = 204
    /\ ~res[r].json /\ res[r].body = {}
    /\ res[r].headers = CorsHeaders
    /\ UpstreamCalls(r) = 0

\* C8: every OPTIONS request gets 204 with an empty body and the three CORS
\* headers, whatever its body, the secrets and the cache hold, with no
\* upstream call and no change to the token cache.
C8_OptionsIs204 ==
    /\ [](\A r \in Reqs : (Started(r) /\ req[r].method = "OPTIONS") => PreflightAnswered(r))
    /\ [][\A r \in Reqs :
             (pc[r] = "idle" /\ req'[r].method = "OPTIONS") => redditToken' = redditToken]_vars

\* An OPTIONS request with a well-formed body answered while the cache holds
\* a token
C8_Witness ==
    \E r \in Reqs :
        /\ req[r].method = "OPTIONS" /\ ~MalformedBody(req[r].body)
        /\ res[r].status = 204 /\ CacheHoldsToken

-----------------------------------------------------------------------------
(* C9 *)

MethodRejected(r) ==
    /\ Finished(r)
    /\ res[r].sends = 1
    /\ res[r].status = 405
    /\ res[r].body = MethodNotAllowed
    /\ UpstreamCalls(r) = 0

\* C9: every request whose method is neither OPTIONS nor POST is answered
\* 405 whatever its body and the secrets are, with no upstream call and the
\* token cache unchanged.
C9_OtherMethodIs405 ==
    /\ [](\A r \in Reqs :
             (Started(r) /\ req[r].method \notin {"OPTIONS", "POST"}) => MethodRejected(r))
    /\ [][\A r \in Reqs :
             (pc[r] = "idle" /\ req'[r].method \notin {"", "OPTIONS", "POST"})
                 => redditToken' = redditToken]_vars

\* A GET with a well-formed body answered by a fully configured process
C9_Witness ==
    \E r \in Reqs :
        /\ req[r].method = "GET" /\ ~MalformedBody(req[r].body)
        /\ AllSecretsSet /\ res[r].status = 405

-----------------------------------------------------------------------------
(* C10 *)

\* C10: a channel name without a search match makes getChannelVideos return
\* the empty list without raising and without the listing call; the entry of
\* that channel has no videos, and the request is still answered 200 when
\* the synthesis succeeds.
C10_UnknownChannelIsEmpty ==
    \A r \in Reqs : \A i \in 1..Len(chans[r]) :
        chans[r][i].noMatch =>
            /\ chans[r][i].st = "done"
            /\ ~chans[r][i].failed
            /\ chans[r][i].resolveCalls = 1 /\ chans[r][i].listCalls = 0
            /\ chans[r][i].videos = << >>
            /\ (synth[r].st = "done" /\ synth[r].kind = "ok") =>
                  Finished(r) /\ res[r].sends = 1 /\ res[r].status = 200

\* A request with an unknown channel answered 200
C10_Witness ==
    \E r \in Reqs : \E i \in 1..Len(chans[r]) :
        /\ chans[r][i].noMatch
        /\ Finished(r) /\ res[r].status = 200

-----------------------------------------------------------------------------
(* C11 *)

\* The .then callback of the token promise calls sub.replace on an element
\* that is no string
ThrowsTypeError(r) ==
    /\ req[r].method = "POST" /\ ~MalformedBody(req[r].body) /\ AllSecretsSet
    /\ tok[r].st = "done" /\ tok[r].value # NullToken
    /\ \E j \in 1..Len(req[r].body.relevantSubreddits.items) :
          ~req[r].body.relevantSubreddits.items[j].isString

\* C11: a 200 response carries exactly the object parsed from the answer of
\* the synthesis endpoint, whatever its keys are, and an exception reaching
\* the handler between the body validation and that response (the rethrown
\* synthesis error, the TypeError of sub.replace) is answered 500 with the
\* message of that exception as `details`.
C11_PassThroughAndCatch ==
    \A r \in Reqs :
        /\ res[r].status = 200 =>
              /\ synth[r].st = "done" /\ synth[r].kind = "ok"
              /\ res[r].body = synth[r].value
              /\ \E outcome \in SynthOutcomes :
                    outcome.kind = "ok" /\ res[r].body = outcome.value
        /\ synth[r].failed =>
              /\ Finished(r) /\ res[r].sends = 1 /\ res[r].status = 500
              /\ <<"details", synth[r].message>> \in res[r].body
              /\ synth[r].message \in NormalizedMessages
        /\ ThrowsTypeError(r) =>
              /\ Finished(r) /\ res[r].sends = 1 /\ res[r].status = 500
              /\ <<"details", <<"sub.replace is not a function">>>> \in res[r].body

\* A TypeError answered 500 while the keyword search is still pending
C11_Witness ==
    \E r \in Reqs :
        /\ ThrowsTypeError(r) /\ res[r].status = 500
        /\ search[r].st = "pending"

-----------------------------------------------------------------------------
(* C12 *)

StrategyKeys == {"trendDiscovery", "contentAnalysis", "competitorReport", "strategyCalendar"}

\* The object has the keys of a strategy and a calendar of 30 entries
IsStrategy(obj) ==
    /\ Keys(obj) = StrategyKeys
    /\ Value(obj, "strategyCalendar") = <<"[30 day entries]">>

\* Every upstream call of invocation r was made and answered successfully
AllUpstreamSucceeded(r) ==
    /\ search[r].st = "done" /\ ~search[r].failed
    /\ \A i \in 1..Len(chans[r]) : chans[r][i].st = "done" /\ ~chans[r][i].failed
    /\ tok[r].st = "done" /\ ~tok[r].failed
    /\ \A j \in 1..Len(subs[r]) : subs[r][j].st = "done" /\ ~subs[r][j].failed
    /\ synth[r].st = "done" /\ synth[r].kind = "ok"

\* C12 as stated: a valid request whose upstream calls all succeed is
\* answered 200 with a body of exactly the keys trendDiscovery,
\* contentAnalysis, competitorReport, strategyCalendar, the calendar having
\* 30 entries.
C12_StrategySchema ==
    \A r \in Reqs :
        (ValidRequest(r) /\ AllUpstreamSucceeded(r)) =>
            /\ res[r].status = 200
            /\ IsStrategy(res[r].body)

\* C12: a valid request whose upstream calls all succeed is answered 200
\* with the object the synthesis endpoint returned; the body has the keys of
\* a strategy and a calendar of 30 entries when that object has them, the
\* handler checking neither.
C12_SchemaAsSynthesized ==
    \A r \in Reqs :
        (ValidRequest(r) /\ AllUpstreamSucceeded(r)) =>
            /\ Finished(r) /\ res[r].sends = 1
            /\ res[r].status = 200 /\ res[r].json
            /\ ContentTypeJson \subseteq res[r].headers
            /\ res[r].body = synth[r].value
            /\ IsStrategy(synth[r].value) => IsStrategy(res[r].body)

\* A valid request with a channel and a subreddit answered 200 with a
\* strategy
C12_Witness ==
    \E r \in Reqs :
        /\ ValidRequest(r) /\ AllUpstreamSucceeded(r)
        /\ Len(chans[r]) > 0 /\ Len(subs[r]) > 0
        /\ res[r].status = 200 /\ IsStrategy(res[r].body)

-----------------------------------------------------------------------------
(* C13 *)

\* C13: every response the handler sends, with whatever status (405, 400,
\* 500, 200, and the 204 of the preflight), carries the three CORS headers:
\* allowed origin *, allowed methods POST, OPTIONS, allowed header
\* Content-Type.
C13_EveryResponseHasCors ==
    \A r \in Reqs :
        res[r].sends > 0 =>
            /\ <<"Access-Control-Allow-Origin", "*">> \in res[r].headers
            /\ <<"Access-Control-Allow-Methods", "POST, OPTIONS">> \in res[r].headers
            /\ <<"Access-Control-Allow-Headers", "Content-Type">> \in res[r].headers

\* A 200 sent with the CORS headers after Content-Type was set
C13_Witness ==
    \E r \in Reqs :
        /\ req[r].method = "POST" /\ res[r].status = 200
        /\ ContentTypeJson \subseteq res[r].headers
        /\ CorsHeaders \subseteq res[r].headers

-----------------------------------------------------------------------------
(* C14 *)

FallbackTexts == {<<"No data collected.">>, <<"N/A">>}

\* The data sources of invocation r that yielded nothing
SearchYieldsNothing(r) == search[r].titles = << >>
ChannelsYieldNothing(r) == \A i \in 1..Len(chans[r]) : chans[r][i].videos = << >>
RedditYieldsNothing(r) ==
    \/ tok[r].value = NullToken
    \/ \A j \in 1..Len(subs[r]) : subs[r][j].posts = << >>

\* C14: in the prompt sent to the synthesis endpoint, the line of a data
\* source that yielded nothing (no title from the keyword search; no channel
\* listed or every listed channel without videos; no subreddit listed, every
\* listed subreddit without posts, or a null token) is the fallback text.
C14_PlaceholderWhenNothing ==
    \A r \in Reqs :
        synth[r].calls > 0 =>
            /\ SearchYieldsNothing(r) => synth[r].prompt.top \in FallbackTexts
            /\ ChannelsYieldNothing(r) => synth[r].prompt.competitors \in FallbackTexts
            /\ RedditYieldsNothing(r) => synth[r].prompt.reddit \in FallbackTexts

-----------------------------------------------------------------------------
(* C15 *)

\* A fetch of the fan-out of invocation r has been issued, or is still to be
\* issued by a pending step, and has not completed
FetchOutstanding(r) ==
    \/ search[r].st = "pending"
    \/ \E i \in 1..Len(chans[r]) : chans[r][i].st \in {"resolving", "listing"}
    \/ tok[r].st = "pending"
    \/ \E j \in 1..Len(subs[r]) : subs[r][j].st = "pending"

\* C15: within one request the synthesis call is issued only after the
\* keyword search, every channel fetch, the token acquisition and every
\* subreddit fetch have completed: while one of them is outstanding no
\* synthesis call has started and no response has been sent.
C15_NothingBeforeFanIn ==
    \A r \in Reqs :
        FetchOutstanding(r) => synth[r].calls = 0 /\ res[r].sends = 0

-----------------------------------------------------------------------------
(* C16 *)

\* C16: nothing is retried: within one request each upstream call (keyword
\* search, channel resolution and channel listing per channel, token
\* exchange, subreddit listing per subreddit, synthesis) is issued at most
\* once, whether it failed or not, and a failed synthesis raises the one
\* normalized error whichever the kind of failure.
C16_NoRetry ==
    \A r \in Reqs :
        /\ search[r].calls <= 1
        /\ \A i \in 1..Len(chans[r]) :
              chans[r][i].resolveCalls <= 1 /\ chans[r][i].listCalls <= 1
        /\ tok[r].exchanges <= 1
        /\ \A j \in 1..Len(subs[r]) : subs[r][j].calls <= 1
        /\ synth[r].calls <= 1
        /\ search[r].failed => search[r].st = "done"
        /\ \A i \in 1..Len(chans[r]) : chans[r][i].failed => chans[r][i].st = "done"
        /\ tok[r].failed => tok[r].st = "done"
        /\ \A j \in 1..Len(subs[r]) : subs[r][j].failed => subs[r][j].st = "done"
        /\ synth[r].failed => synth[r].st = "done"
        /\ synth[r].failed =>
              /\ Finished(r)
              /\ synth[r].kind \in {"httpError", "badJson"}
              /\ synth[r].message =
                    IF provider = "openai"
                    THEN <<"Failed to get a valid response from the OpenAI API.">>
                    ELSE <<"Failed to get a valid response from the Gemini API.">>

\* A request whose keyword search, channel listing, token exchange and
\* synthesis failed after one call each
C16_Witness ==
    \E r \in Reqs :
        /\ search[r].failed /\ search[r].calls = 1
        /\ tok[r].failed /\ tok[r].exchanges = 1
        /\ \E i \in 1..Len(chans[r]) : chans[r][i].failed
        /\ synth[r].failed /\ synth[r].calls = 1 /\ synth[r].kind = "badJson"

-----------------------------------------------------------------------------
(* C17 *)

\* The exchange of invocation r answers with a token in this step
ExchangeSucceeds(r) ==
    tok[r].st = "pending" /\ tok'[r].st = "done" /\ tok'[r].value # NullToken

\* Invocation r obtained its token from its own exchange
OwnExchangeSucceeded(r) ==
    tok[r].st = "done" /\ tok[r].exchanges = 1 /\ ~tok[r].failed

\* C17: when invocations overlap on an empty or expired cache, each issues
\* at most one exchange; every successful exchange writes its own token with
\* its own expiry over whatever the cache holds, so that the last successful
\* one wins, and nothing else writes the cache; an invocation whose own
\* exchange succeeded fetches each subreddit with the token that exchange
\* returned.
C17_LastWriteWins ==
    /\ [](\A r \in Reqs :
             /\ tok[r].exchanges <= 1
             /\ OwnExchangeSucceeded(r) =>
                   /\ tok[r].value # NullToken /\ tok[r].value.by = r
                   /\ Len(subs[r]) = Len(req[r].body.relevantSubreddits.items)
                   /\ \A j \in 1..Len(subs[r]) :
                         subs[r][j].calls = 1 /\ subs[r][j].token = tok[r].value)
    /\ [][/\ \A r \in Reqs :
                ExchangeSucceeds(r) =>
                    /\ redditToken'.value = tok'[r].value
                    /\ redditToken'.expires = now + 50 * 60 * 1000
          /\ redditToken' # redditToken => \E r \in Reqs : ExchangeSucceeds(r)]_vars

\* Two overlapping invocations both exchanged with success; the cache holds
\* the token of the second, written over the token the first still uses
C17_Witness ==
    /\ OwnExchangeSucceeded(1) /\ OwnExchangeSucceeded(2)
    /\ pc[1] = "fanout" /\ pc[2] = "fanout"
    /\ tok[1].value # tok[2].value
    /\ redditToken.value = tok[2].value
    /\ \E j \in 1..Len(subs[1]) : subs[1][j].st = "pending" /\ subs[1][j].token = tok[1].value

-----------------------------------------------------------------------------
(* C18 *)

\* The exchange of invocation r fails in this step
ExchangeFails(r) == tok[r].st = "pending" /\ tok'[r].st = "done" /\ tok'[r].failed

\* C18: a failed exchange leaves the cache as it was, whatever it holds; a
\* call of getRedditAccessToken that finds no valid token in the cache issues
\* an exchange, and an exchange that succeeds leaves a valid token in the
\* cache.
C18_FailureLeavesCache ==
    [][\A r \in Reqs :
          /\ ExchangeFails(r) => redditToken' = redditToken
          /\ (CallsGetToken(r)
                /\ ~(redditToken.value # NullToken /\ redditToken.expires > now)) =>
                    /\ tok'[r].st = "pending" /\ tok'[r].exchanges = 1
                    /\ tok'[r].value = NullToken
          /\ ExchangeSucceeds(r) =>
                /\ redditToken'.value # NullToken
                /\ redditToken'.expires > now]_vars

\* Of two overlapping invocations one failed its exchange and the other
\* succeeded: the cache holds the token of the latter
C18_Witness ==
    \E r \in Reqs, q \in Reqs :
        /\ tok[r].failed /\ tok[r].exchanges = 1
        /\ OwnExchangeSucceeded(q)
        /\ redditToken.value = tok[q].value
        /\ redditToken.expires > now

-----------------------------------------------------------------------------
(* C19 *)

\* Lifetime of a token at the provider, counted from its issuance
ProviderTtlMs == 60 * 60 * 1000

\* getRedditAccessToken returns the cached token to invocation r in this step
ServedFromCache(r) == CallsGetToken(r) /\ tok'[r].fromCache

\* Time the exchange response holding the cached token was processed
ProcessedAt(c) == c.expires - 50 * 60 * 1000

\* C19 as stated: a successful exchange stores expiry = processing time + 50
\* minutes, a cached token is served only while that expiry is later than
\* the current time, and a token served from the cache is never older than
\* the 60 minutes the provider grants it from issuance.
C19_NeverStaleFromCache ==
    [][\A r \in Reqs :
          /\ ExchangeSucceeds(r) => redditToken'.expires = now + 50 * 60 * 1000
          /\ ServedFromCache(r) =>
                /\ redditToken.expires > now
                /\ now < tok'[r].value.iat + ProviderTtlMs]_vars

\* C19: a successful exchange stores expiry = processing time + 50 minutes
\* and a cached token is served only while that expiry is later than the
\* current time; a token served from the cache is younger than the 60
\* minutes of the provider when its exchange response was processed within
\* 10 minutes of its issuance.
C19_FreshWithinLatency ==
    [][\A r \in Reqs :
          /\ ExchangeSucceeds(r) => redditToken'.expires = now + 50 * 60 * 1000
          /\ ServedFromCache(r) =>
                /\ tok'[r].value = redditToken.value
                /\ redditToken.expires > now
                /\ ProcessedAt(redditToken) - redditToken.value.iat <= 10 * 60 * 1000 =>
                      now < tok'[r].value.iat + ProviderTtlMs]_vars

\* A token served from the cache some time after its exchange, the response
\* of which was processed as the token was issued
C19_Witness ==
    \E r \in Reqs :
        /\ tok[r].fromCache /\ tok[r].value = redditToken.value
        /\ ProcessedAt(redditToken) = redditToken.value.iat
        /\ now > redditToken.value.iat

-----------------------------------------------------------------------------
(* C20 *)

\* C20: a request gets one terminal response and no more, with a status of
\* 204, 405, 400, 500 or 200, sent as the handler finishes and never
\* changed afterwards; when every upstream call is eventually answered,
\* every request that arrived is eventually answered.
C20_OneResponseEventually ==
    /\ [](\A r \in Reqs :
             /\ res[r].sends <= 1
             /\ Finished(r) <=> res[r].sends = 1
             /\ res[r].sends = 1 => res[r].status \in {204, 405, 400, 500, 200}
             /\ res[r].sends = 0 => res[r].status = 0)
    /\ [][\A r \in Reqs :
             (res[r].sends = 1 /\ pc'[r] # "idle") =>
                 res'[r].sends = 1 /\ res'[r].status = res[r].status]_vars
    /\ \A r \in Reqs : Started(r) ~> Finished(r)

\* A request answered 200 after a keyword search, a channel fetch, a token
\* exchange and a subreddit fetch
C20_Witness ==
    \E r \in Reqs :
        /\ Finished(r) /\ res[r].sends = 1 /\ res[r].status = 200
        /\ Len(chans[r]) > 0 /\ Len(subs[r]) > 0 /\ tok[r].exchanges = 1

-----------------------------------------------------------------------------
(* C21 *)

\* The subreddit fetches invocation r has issued: the token and the number
\* of calls of each
FetchesIssued(r) == [j \in 1..Len(subs[r]) |-> <<subs[r][j].token, subs[r][j].calls>>]

\* Another invocation writes the token cache in this step
CacheOverwrittenFor(r) ==
    /\ redditToken' # redditToken
    /\ \E q \in Reqs \ {r} : ExchangeSucceeds(q)

\* C21: within one request getRedditAccessToken is called once and every
\* subreddit fetch carries the token that call returned, one fetch per
\* listed subreddit; when an overlapping request writes the token cache,
\* the token the request holds, the token of each fetch it issued and the
\* number of its fetches stay as they are.
C21_TokenOfTheRequest ==
    /\ [](\A r \in Reqs :
             /\ tok[r].exchanges <= 1
             /\ tok[r].fromCache => tok[r].exchanges = 0
             /\ \A j \in 1..Len(subs[r]) :
                   subs[r][j].calls > 0 =>
                       subs[r][j].token = tok[r].value /\ tok[r].value # NullToken
             /\ (tok[r].st = "done" /\ tok[r].value # NullToken) =>
                   /\ Len(subs[r]) = Len(req[r].body.relevantSubreddits.items)
                   /\ \A j \in 1..Len(subs[r]) : subs[r][j].calls = 1)
    /\ [][\A r \in Reqs :
             (Started(r) /\ CacheOverwrittenFor(r)) =>
                 /\ tok'[r] = tok[r]
                 /\ FetchesIssued(r)' = FetchesIssued(r)]_vars

\* A request served from the cache still waits for a subreddit fetch issued
\* with that token, after an overlapping request found the cache expired and
\* wrote the token of its own exchange
C21_Witness ==
    \E r \in Reqs, q \in Reqs :
        /\ tok[r].fromCache /\ pc[r] = "fanout"
        /\ \E j \in 1..Len(subs[r]) :
              subs[r][j].st = "pending" /\ subs[r][j].token = tok[r].value
        /\ OwnExchangeSucceeded(q)
        /\ redditToken.value = tok[q].value
        /\ redditToken.value # tok[r].value

=============================================================================
